---- MODULE Spec2Model ----
(***************************************************************************)
(* clcompile: a command line front end that selects one OpenCL platform    *)
(* and device, creates a context and builds every file given on the        *)
(* command line (src/src/clutils.cpp).                                      *)
(*                                                                         *)
(* Two specifications share the steps of compiler::init and                *)
(* compiler::build:                                                        *)
(*   Spec         the process: main() drives parse_args, one init, one     *)
(*                load_file + build per filename, then ~compiler;          *)
(*   SpecSession  the class clc::compiler of clc.h driven by a client      *)
(*                that may call init, build and the destructor with any    *)
(*                indices and in any order;                                *)
(*   SpecErrorStr the function cl_error_str applied to status codes.       *)
(* The OpenCL driver and the file system are the environment: every        *)
(* driver call may succeed or return an error code, and what it returns    *)
(* on success is drawn from bounded sets.  Heap allocation never fails.    *)
(***************************************************************************)
EXTENDS Integers, Sequences, FiniteSets, TLC

(* ------------------------------ bounds --------------------------------- *)
MaxArgs == 3
MaxPlatforms == 2
MaxDevices == 2
MaxLog == 1
MaxGarbage == 1
MaxBuilds == 2
MaxErrorCode == 75
MaxLookups == 2

(* ------------------------- program constants --------------------------- *)
NULL == 0
EXIT_SUCCESS == 0
EXIT_FAILURE == 1
CL_SUCCESS == 0
CL_COMPILER_NOT_AVAILABLE == 0 - 3
CL_OUT_OF_HOST_MEMORY == 0 - 6
CL_BUILD_PROGRAM_FAILURE == 0 - 11
CL_INVALID_VALUE == 0 - 30
CL_INVALID_CONTEXT == 0 - 34

(* Codes and names of the switch of cl_error_str, in source order.         *)
ErrorTable ==
  << <<0, "CL_SUCCESS">>, <<0 - 1, "CL_DEVICE_NOT_FOUND">>,
     <<0 - 2, "CL_DEVICE_NOT_AVAILABLE">>, <<0 - 3, "CL_COMPILER_NOT_AVAILABLE">>,
     <<0 - 4, "CL_MEM_OBJECT_ALLOCATION_FAILURE">>, <<0 - 5, "CL_OUT_OF_RESOURCES">>,
     <<0 - 6, "CL_OUT_OF_HOST_MEMORY">>, <<0 - 7, "CL_PROFILING_INFO_NOT_AVAILABLE">>,
     <<0 - 8, "CL_MEM_COPY_OVERLAP">>, <<0 - 9, "CL_IMAGE_FORMAT_MISMATCH">>,
     <<0 - 10, "CL_IMAGE_FORMAT_NOT_SUPPORTED">>, <<0 - 11, "CL_BUILD_PROGRAM_FAILURE">>,
     <<0 - 12, "CL_MAP_FAILURE">>, <<0 - 13, "CL_MISALIGNED_SUB_BUFFER_OFFSET">>,
     <<0 - 14, "CL_EXEC_STATUS_ERROR_FOR_EVENTS_IN_WAIT_LIST">>,
     <<0 - 15, "CL_COMPILE_PROGRAM_FAILURE">>, <<0 - 16, "CL_LINKER_NOT_AVAILABLE">>,
     <<0 - 17, "CL_LINK_PROGRAM_FAILURE">>, <<0 - 18, "CL_DEVICE_PARTITION_FAILED">>,
     <<0 - 19, "CL_KERNEL_ARG_INFO_NOT_AVAILABLE">>, <<0 - 30, "CL_INVALID_VALUE">>,
     <<0 - 31, "CL_INVALID_DEVICE_TYPE">>, <<0 - 32, "CL_INVALID_PLATFORM">>,
     <<0 - 33, "CL_INVALID_DEVICE">>, <<0 - 34, "CL_INVALID_CONTEXT">>,
     <<0 - 35, "CL_INVALID_QUEUE_PROPERTIES">>, <<0 - 36, "CL_INVALID_COMMAND_QUEUE">>,
     <<0 - 37, "CL_INVALID_HOST_PTR">>, <<0 - 38, "CL_INVALID_MEM_OBJECT">>,
     <<0 - 39, "CL_INVALID_IMAGE_FORMAT_DESCRIPTOR">>, <<0 - 40, "CL_INVALID_IMAGE_SIZE">>,
     <<0 - 41, "CL_INVALID_SAMPLER">>, <<0 - 42, "CL_INVALID_BINARY">>,
     <<0 - 43, "CL_INVALID_BUILD_OPTIONS">>, <<0 - 44, "CL_INVALID_PROGRAM">>,
     <<0 - 45, "CL_INVALID_PROGRAM_EXECUTABLE">>, <<0 - 46, "CL_INVALID_KERNEL_NAME">>,
     <<0 - 47, "CL_INVALID_KERNEL_DEFINITION">>, <<0 - 48, "CL_INVALID_KERNEL">>,
     <<0 - 49, "CL_INVALID_ARG_INDEX">>, <<0 - 50, "CL_INVALID_ARG_VALUE">>,
     <<0 - 51, "CL_INVALID_ARG_SIZE">>, <<0 - 52, "CL_INVALID_KERNEL_ARGS">>,
     <<0 - 53, "CL_INVALID_WORK_DIMENSION">>, <<0 - 54, "CL_INVALID_WORK_GROUP_SIZE">>,
     <<0 - 55, "CL_INVALID_WORK_ITEM_SIZE">>, <<0 - 56, "CL_INVALID_GLOBAL_OFFSET">>,
     <<0 - 57, "CL_INVALID_EVENT_WAIT_LIST">>, <<0 - 58, "CL_INVALID_EVENT">>,
     <<0 - 59, "CL_INVALID_OPERATION">>, <<0 - 60, "CL_INVALID_GL_OBJECT">>,
     <<0 - 61, "CL_INVALID_BUFFER_SIZE">>, <<0 - 62, "CL_INVALID_MIP_LEVEL">>,
     <<0 - 63, "CL_INVALID_GLOBAL_WORK_SIZE">>, <<0 - 64, "CL_INVALID_PROPERTY">>,
     <<0 - 65, "CL_INVALID_IMAGE_DESCRIPTOR">>, <<0 - 66, "CL_INVALID_COMPILER_OPTIONS">>,
     <<0 - 67, "CL_INVALID_LINKER_OPTIONS">>,
     <<0 - 68, "CL_INVALID_DEVICE_PARTITION_COUNT">>, <<0 - 69, "CL_INVALID_PIPE_SIZE">>,
     <<0 - 70, "CL_INVALID_DEVICE_QUEUE">>, <<0 - 71, "CL_INVALID_SPEC_ID">>,
     <<0 - 72, "CL_MAX_SIZE_RESTRICTION_EXCEEDED">> >>


(* Variant that looks the code up by magnitude, sign dropped.              *)
cl_error_str_Magnitude(errorcode) ==
  LET hits == {k \in 1..Len(ErrorTable) :
                 ErrorTable[k][1] = (IF errorcode > 0 THEN 0 - errorcode ELSE errorcode)}
  IN  IF hits = {} THEN "<unknown>"
      ELSE ErrorTable[CHOOSE k \in hits : \A j \in hits : k <= j][2]

(* cl_error_str: the name of the first case that matches, else <unknown>.  *)
cl_error_str(errorcode) ==
  LET hits == {k \in 1..Len(ErrorTable) : ErrorTable[k][1] = errorcode}
  IN  IF hits = {} THEN "<unknown>"
      ELSE ErrorTable[CHOOSE k \in hits : \A j \in hits : k <= j][2]

(* --------------------------- the environment --------------------------- *)
(* Error codes a driver call may return when it fails.                     *)
DriverErrors == {CL_OUT_OF_HOST_MEMORY}
BuildErrors == {CL_BUILD_PROGRAM_FAILURE, CL_OUT_OF_HOST_MEMORY, CL_COMPILER_NOT_AVAILABLE}

(* Opaque handles, as distinct non-null integers.                          *)
PlatformHandle(p) == 10 + p
DeviceHandle(p, d) == 100 + 10 * p + d
ContextHandle(k) == 1000 + k
ProgramHandle(k) == 2000 + k

(* Indices a caller may ask for: up to one past the largest count.         *)
MaxIndex == MaxPlatforms

(* The size of a device's name, terminator included, as the driver reports *)
(* it: names differ in length from device to device.                       *)
DeviceNameSize(device) == 2 + (device % 10)

(* The lists the driver fills in for clGetPlatformIDs / clGetDeviceIDs.    *)
PlatformList(n) == [k \in 0..(n - 1) |-> PlatformHandle(k)]
DeviceList(p, n) == [k \in 0..(n - 1) |-> DeviceHandle(p, k)]

(* Command line tokens.  "1" is a number where a value is read and, like   *)
(* any token parse_args does not recognise, a filename elsewhere.          *)
Tokens == {"-d", "--device-id", "-p", "--platform-id", "-h", "--help",
           "-v", "--version", "--", "1", "a.cl"}

(* Source texts a client hands to build, named by the file they come from. *)
Sources == {"a.cl"}

RECURSIVE SeqsUpTo(_, _)
SeqsUpTo(S, n) ==
  IF n = 0 THEN {<<>>}
  ELSE LET shorter == SeqsUpTo(S, n - 1)
       IN  shorter \cup {Append(s, t) : s \in {x \in shorter : Len(x) = n - 1}, t \in S}

(* atoi on the tokens of the model: leading digits, else 0.                *)
atoi(tok) == IF tok = "1" THEN 1 ELSE 0

(* The text of a build log of length n, and the C string held by a buffer: *)
(* the characters before the first NUL (0).                                *)
LogText(n) == [k \in 1..n |-> 1]
ZeroBuffer(n) == [k \in 1..n |-> 0]
CString(buf) ==
  LET nuls == {k \in 1..Len(buf) : buf[k] = 0}
  IN  IF nuls = {} THEN buf
      ELSE SubSeq(buf, 1, (CHOOSE k \in nuls : \A j \in nuls : k <= j) - 1)

(* ------------------------------- state --------------------------------- *)
VARIABLES
  args,        \* argv[1..argc-1]
  pc,          \* position of the single thread of control
  i,           \* parse_args: index into argv
  options,     \* clcompile_options
  exit,        \* parse_args: out parameter
  retval,      \* value main is returning
  fidx,        \* main: position of the range-for over options.filenames
  heap,        \* source buffers allocated by load_file and not yet deleted
  m_platform, m_device, m_context,   \* clc::compiler
  session,     \* "none", "alive" or "destroyed": lifetime of the compiler object
  loc,         \* locals of the running init or build
  guards,      \* scope guards alive in the running build
  ret,         \* value returned by the last init or build
  initResult,  \* history: "none", or what init returned ("true" / "false")
  nbuilds,     \* number of build calls so far
  calls,       \* history: driver calls, in order
  indexed,     \* history: vector subscripts evaluated by init
  out,         \* history: messages written to stdout / stderr
  exitCode     \* process exit status, -1 while running

vars == <<args, pc, i, options, exit, retval, fidx, heap, m_platform, m_device,
          m_context, session, loc, guards, ret, initResult, nbuilds, calls, indexed, out, exitCode>>

parseVars == <<i, options, exit>>
sessionVars == <<m_platform, m_device, m_context, session>>

argc == Len(args) + 1
argv(k) == args[k]

(* A driver call: function, kind of query, first and second handle         *)
(* argument, size or count argument, string argument, returned status,     *)
(* and the count, size or handle the driver hands back (0 when none).      *)
Call(fn, q, a, b, n, str, err, res) ==
  [fn |-> fn, q |-> q, a |-> a, b |-> b, n |-> n, str |-> str, err |-> err, res |-> res]
Msg(stream, msg, arg, n, text) ==
  [stream |-> stream, msg |-> msg, arg |-> arg, n |-> n, text |-> text]
logerr(msg, arg, n, text) == Msg("stderr", msg, arg, n, text)
loginfo(msg, arg, n, text) == Msg("stdout", msg, arg, n, text)

NoLocals ==
  [platform_id |-> 0, device_id |-> 0, num_platforms |-> 0, num_devices |-> 0,
   device |-> NULL, name_len |-> 0, err |-> 0, context |-> NULL,
   src |-> "", program |-> NULL, sz |-> 0, log |-> <<>>, loglen |-> 0]

InitCommon ==
  /\ i = 1
  /\ options = [filenames |-> <<>>, clargs |-> <<>>, platform_id |-> 0, device_id |-> 0]
  /\ exit = FALSE
  /\ retval = EXIT_SUCCESS
  /\ fidx = 1
  /\ heap = {}
  /\ m_platform = NULL
  /\ m_device = NULL
  /\ m_context = NULL
  /\ loc = NoLocals
  /\ guards = <<>>
  /\ ret = FALSE
  /\ initResult = "none"
  /\ nbuilds = 0
  /\ calls = <<>>
  /\ indexed = {}
  /\ out = <<>>
  /\ exitCode = 0 - 1

(* The process starts in main with some command line.                      *)
Init ==
  /\ args \in SeqsUpTo(Tokens, MaxArgs)
  /\ pc = "parse_args"
  /\ session = "none"
  /\ InitCommon

(* A client holds a freshly constructed compiler (clc.h: compiler()).      *)
InitSession ==
  /\ args = <<>>
  /\ pc = "idle"
  /\ session = "alive"
  /\ InitCommon

(* ----------------------------- parse_args ------------------------------ *)
print_help == Msg("stdout", "usage", "", 0, <<>>)
print_version == Msg("stdout", "version", "CL_TARGET_OPENCL_VERSION", 0, <<>>)

IsDeviceOption(tok) == tok = "--device-id" \/ tok = "-d"
IsPlatformOption(tok) == tok = "--platform-id" \/ tok = "-d"
IsHelp(tok) == tok = "--help" \/ tok = "-h"
IsVersion(tok) == tok = "--version" \/ tok = "-v"
IsDashDash(tok) == tok = "--"

(* The test that makes parse_args report a missing option value.           *)
MissingArgument(k, n) == k < n - 1

(* parse_args returns to main with exit set and the given value.           *)
ParseReturn(ex, rv) ==
  /\ exit' = ex
  /\ retval' = rv
  /\ pc' = "main_parsed"

ParseUnchanged ==
  UNCHANGED <<args, fidx, heap, sessionVars, loc, guards, ret, initResult, nbuilds,
              calls, indexed, exitCode>>

(* if (argc < 2) { print_help(); exit = true; return EXIT_FAILURE; }       *)
ParseStart ==
  /\ pc = "parse_args"
  /\ IF argc < 2
     THEN /\ out' = Append(out, print_help)
          /\ ParseReturn(TRUE, EXIT_FAILURE)
          /\ UNCHANGED <<i, options>>
     ELSE /\ i' = 1
          /\ pc' = "parse_loop"
          /\ UNCHANGED <<options, exit, retval, out>>
  /\ ParseUnchanged

(* An option that takes a value, storing it in the given field.  When the  *)
(* option is the last token, argv[i + 1] is argv[argc], a null pointer,    *)
(* and atoi of it is undefined: the process dies or reads some integer.    *)
ParseValueOption(field) ==
  IF MissingArgument(i, argc)
  THEN /\ out' = Append(out, logerr("missing argument for option", argv(i), 0, <<>>))
       /\ ParseReturn(TRUE, EXIT_FAILURE)
       /\ UNCHANGED <<i, options, exitCode>>
  ELSE IF i + 1 < argc
       THEN /\ options' = [options EXCEPT ![field] = atoi(argv(i + 1))]
            /\ i' = i + 2
            /\ UNCHANGED <<pc, exit, retval, out, exitCode>>
       ELSE \/ /\ pc' = "crashed"
               /\ UNCHANGED <<i, options, exit, retval, out, exitCode>>
            \/ \E g \in 0..MaxIndex :
                 /\ options' = [options EXCEPT ![field] = g]
                 /\ i' = i + 2
                 /\ UNCHANGED <<pc, exit, retval, out, exitCode>>

ParseLoopUnchanged ==
  UNCHANGED <<args, fidx, heap, sessionVars, loc, guards, ret, initResult, nbuilds,
              calls, indexed>>

ParseDeviceId ==
  /\ pc = "parse_loop"
  /\ i < argc
  /\ IsDeviceOption(argv(i))
  /\ ParseValueOption("device_id")
  /\ ParseLoopUnchanged

ParsePlatformId ==
  /\ pc = "parse_loop"
  /\ i < argc
  /\ ~IsDeviceOption(argv(i))
  /\ IsPlatformOption(argv(i))
  /\ ParseValueOption("platform_id")
  /\ ParseLoopUnchanged

ParseHelp ==
  /\ pc = "parse_loop"
  /\ i < argc
  /\ ~IsDeviceOption(argv(i))
  /\ ~IsPlatformOption(argv(i))
  /\ IsHelp(argv(i))
  /\ out' = Append(out, print_help)
  /\ ParseReturn(TRUE, EXIT_SUCCESS)
  /\ UNCHANGED <<i, options>>
  /\ ParseUnchanged

ParseVersion ==
  /\ pc = "parse_loop"
  /\ i < argc
  /\ ~IsDeviceOption(argv(i))
  /\ ~IsPlatformOption(argv(i))
  /\ ~IsHelp(argv(i))
  /\ IsVersion(argv(i))
  /\ out' = Append(out, print_version)
  /\ ParseReturn(TRUE, EXIT_SUCCESS)
  /\ UNCHANGED <<i, options>>
  /\ ParseUnchanged

IsFilename(tok) ==
  ~(IsDeviceOption(tok) \/ IsPlatformOption(tok) \/ IsHelp(tok) \/ IsVersion(tok)
    \/ IsDashDash(tok))

(* Variant of "--" without the ++i before the break.                       *)
ParseDashDash_KeepsToken ==
  /\ pc = "parse_loop"
  /\ i < argc
  /\ ~IsDeviceOption(argv(i))
  /\ ~IsPlatformOption(argv(i))
  /\ ~IsHelp(argv(i))
  /\ ~IsVersion(argv(i))
  /\ IsDashDash(argv(i))
  /\ pc' = "parse_clargs"
  /\ UNCHANGED <<i, options, exit, retval, out>>
  /\ ParseUnchanged

(* "--": ++i; break;                                                       *)
ParseDashDash ==
  /\ pc = "parse_loop"
  /\ i < argc
  /\ ~IsDeviceOption(argv(i))
  /\ ~IsPlatformOption(argv(i))
  /\ ~IsHelp(argv(i))
  /\ ~IsVersion(argv(i))
  /\ IsDashDash(argv(i))
  /\ i' = i + 1
  /\ pc' = "parse_clargs"
  /\ UNCHANGED <<options, exit, retval, out>>
  /\ ParseUnchanged

ParseFilename ==
  /\ pc = "parse_loop"
  /\ i < argc
  /\ IsFilename(argv(i))
  /\ options' = [options EXCEPT !.filenames = Append(@, argv(i))]
  /\ i' = i + 1
  /\ UNCHANGED <<pc, exit, retval, out>>
  /\ ParseUnchanged

(* The for loop ends because i reached argc.                               *)
ParseLoopEnd ==
  /\ pc = "parse_loop"
  /\ ~(i < argc)
  /\ pc' = "parse_clargs"
  /\ UNCHANGED <<i, options, exit, retval, out>>
  /\ ParseUnchanged

(* while (i < argc) { options.clargs.push_back(argv[i]); ++i; }            *)
ParseClarg ==
  /\ pc = "parse_clargs"
  /\ i < argc
  /\ options' = [options EXCEPT !.clargs = Append(@, argv(i))]
  /\ i' = i + 1
  /\ UNCHANGED <<pc, exit, retval, out>>
  /\ ParseUnchanged

(* if (options.filenames.size() == 0) help and failure, else success.      *)
ParseEnd ==
  /\ pc = "parse_clargs"
  /\ ~(i < argc)
  /\ IF Len(options.filenames) = 0
     THEN /\ out' = Append(out, print_help)
          /\ ParseReturn(TRUE, EXIT_FAILURE)
     ELSE /\ ParseReturn(FALSE, EXIT_SUCCESS)
          /\ UNCHANGED out
  /\ UNCHANGED <<i, options>>
  /\ ParseUnchanged

(* ------------------------------ scope_guard ---------------------------- *)
(* Variant of ~scope_guard with the test inverted.                         *)
GuardFires_Inverted(g) == g.dismissed

(* ~scope_guard: the functor runs unless the guard was dismissed.          *)
GuardFires(g) == ~g.dismissed

(* The driver calls made by the guards of a scope that is left, the guard  *)
(* declared last first.                                                    *)
RECURSIVE RunGuards(_)
RunGuards(gs) ==
  IF gs = <<>> THEN <<>>
  ELSE LET g == gs[Len(gs)]
           rest == RunGuards(SubSeq(gs, 1, Len(gs) - 1))
       IN  IF GuardFires(g)
           THEN <<Call(g.fn, "", g.arg, NULL, 0, "", CL_SUCCESS, 0)>> \o rest
           ELSE rest

(* on_scope_guard([&program]() { clReleaseProgram(program); })             *)
ProgramGuard(program) == [fn |-> "clReleaseProgram", arg |-> program, dismissed |-> FALSE]

(* ----------------------------- compiler::init -------------------------- *)
(* Variants of the two range tests that let the index one past the end by. *)
PlatformOutOfRange_OffByOne(platform_id, num_platforms) == platform_id > num_platforms
DeviceOutOfRange_OffByOne(device_id, num_devices) == device_id > num_devices

PlatformOutOfRange(platform_id, num_platforms) == platform_id >= num_platforms
DeviceOutOfRange(device_id, num_devices) == device_id >= num_devices

(* Variant of the subscript that always takes the first element.          *)
VectorAt_First(v, k) == IF 0 \in DOMAIN v THEN v[0] ELSE NULL

(* v[k] of a std::vector; outside the vector the read yields no handle.    *)
VectorAt(v, k) == IF k \in DOMAIN v THEN v[k] ELSE NULL

Created(fn) == Cardinality({k \in 1..Len(calls) : calls[k].fn = fn /\ calls[k].err = CL_SUCCESS})

InitUnchanged ==
  UNCHANGED <<args, parseVars, retval, fidx, heap, session, guards, nbuilds, exitCode>>

(* init returns v.                                                         *)
InitReturn(v) ==
  /\ ret' = v
  /\ initResult' = IF v THEN "true" ELSE "false"
  /\ pc' = "init_ret"

(* A driver call of init failed with err: report it and return false.      *)
InitFail(call, msg, err) ==
  /\ calls' = Append(calls, call)
  /\ out' = Append(out, logerr(msg, cl_error_str(err), 0, <<>>))
  /\ loc' = [loc EXCEPT !.err = err]
  /\ InitReturn(FALSE)

(* clGetPlatformIDs(0, nullptr, &num_platforms)                            *)
InitPlatformCount ==
  /\ pc = "init_count"
  /\ \/ \E err \in DriverErrors :
          InitFail(Call("clGetPlatformIDs", "count", NULL, NULL, 0, "", err, 0),
                   "could not retrieve the number of platforms", err)
     \/ \E n \in 0..MaxPlatforms :
          /\ calls' = Append(calls, Call("clGetPlatformIDs", "count", NULL, NULL, 0, "",
                                         CL_SUCCESS, n))
          /\ loc' = [loc EXCEPT !.err = CL_SUCCESS, !.num_platforms = n]
          /\ pc' = "init_check_platform"
          /\ UNCHANGED <<out, ret, initResult>>
  /\ UNCHANGED <<m_platform, m_device, m_context, indexed>>
  /\ InitUnchanged

(* if (platform_id >= num_platforms) return false;                         *)
InitCheckPlatform ==
  /\ pc = "init_check_platform"
  /\ IF PlatformOutOfRange(loc.platform_id, loc.num_platforms)
     THEN /\ out' = Append(out, logerr("the requested platform cannot be found", "",
                                       loc.platform_id, <<>>))
          /\ InitReturn(FALSE)
     ELSE /\ pc' = "init_platforms"
          /\ UNCHANGED <<out, ret, initResult>>
  /\ UNCHANGED <<m_platform, m_device, m_context, loc, calls, indexed>>
  /\ InitUnchanged

(* clGetPlatformIDs(num_platforms, platforms.data(), nullptr)              *)
InitPlatforms ==
  /\ pc = "init_platforms"
  /\ \/ \E err \in DriverErrors :
          InitFail(Call("clGetPlatformIDs", "list", NULL, NULL, loc.num_platforms, "", err, 0),
                   "could not retrieve the platforms IDs", err)
     \/ /\ calls' = Append(calls, Call("clGetPlatformIDs", "list", NULL, NULL,
                                       loc.num_platforms, "", CL_SUCCESS, 0))
        /\ loc' = [loc EXCEPT !.err = CL_SUCCESS]
        /\ pc' = "init_device_count"
        /\ UNCHANGED <<out, ret, initResult>>
  /\ UNCHANGED <<m_platform, m_device, m_context, indexed>>
  /\ InitUnchanged

(* platforms[platform_id] and devices[device_id] as init reads them.       *)
platforms == PlatformList(loc.num_platforms)
devices == DeviceList(loc.platform_id, loc.num_devices)
IndexPlatforms == <<"platforms", loc.platform_id, loc.num_platforms>>
IndexDevices == <<"devices", loc.device_id, loc.num_devices>>

(* clGetDeviceIDs(platforms[platform_id], CL_DEVICE_TYPE_ALL, 0, nullptr,  *)
(*                &num_devices)                                             *)
InitDeviceCount ==
  /\ pc = "init_device_count"
  /\ indexed' = indexed \cup {IndexPlatforms}
  /\ \/ \E err \in DriverErrors :
          InitFail(Call("clGetDeviceIDs", "count", VectorAt(platforms, loc.platform_id),
                        NULL, 0, "", err, 0),
                   "could not retrieve the number of devices", err)
     \/ \E n \in 0..MaxDevices :
          /\ calls' = Append(calls, Call("clGetDeviceIDs", "count",
                                         VectorAt(platforms, loc.platform_id), NULL, 0, "",
                                         CL_SUCCESS, n))
          /\ loc' = [loc EXCEPT !.err = CL_SUCCESS, !.num_devices = n]
          /\ pc' = "init_check_device"
          /\ UNCHANGED <<out, ret, initResult>>
  /\ UNCHANGED <<m_platform, m_device, m_context>>
  /\ InitUnchanged

(* if (device_id >= num_devices) return false;                             *)
InitCheckDevice ==
  /\ pc = "init_check_device"
  /\ IF DeviceOutOfRange(loc.device_id, loc.num_devices)
     THEN /\ out' = Append(out, logerr("no device index found for platform", "",
                                       loc.device_id, <<>>))
          /\ InitReturn(FALSE)
     ELSE /\ pc' = "init_devices"
          /\ UNCHANGED <<out, ret, initResult>>
  /\ UNCHANGED <<m_platform, m_device, m_context, loc, calls, indexed>>
  /\ InitUnchanged

(* clGetDeviceIDs(platforms[platform_id], CL_DEVICE_TYPE_ALL,              *)
(*                devices.size(), devices.data(), nullptr)                 *)
InitDevices ==
  /\ pc = "init_devices"
  /\ indexed' = indexed \cup {IndexPlatforms}
  /\ \/ \E err \in DriverErrors :
          InitFail(Call("clGetDeviceIDs", "list", VectorAt(platforms, loc.platform_id),
                        NULL, loc.num_devices, "", err, 0),
                   "could not retrieve the devices IDs", err)
     \/ /\ calls' = Append(calls, Call("clGetDeviceIDs", "list",
                                       VectorAt(platforms, loc.platform_id), NULL,
                                       loc.num_devices, "", CL_SUCCESS, 0))
        /\ loc' = [loc EXCEPT !.err = CL_SUCCESS]
        /\ pc' = "init_name_len"
        /\ UNCHANGED <<out, ret, initResult>>
  /\ UNCHANGED <<m_platform, m_device, m_context>>
  /\ InitUnchanged

(* device = devices[device_id];                                            *)
(* clGetDeviceInfo(device, CL_DEVICE_NAME, 0, nullptr, &name_len)          *)
InitNameLen ==
  /\ pc = "init_name_len"
  /\ indexed' = indexed \cup {IndexDevices}
  /\ LET device == VectorAt(devices, loc.device_id)
     IN  \/ \E err \in DriverErrors :
               /\ InitFail(Call("clGetDeviceInfo", "size", device, NULL, 0, "", err, 0),
                           "could not retrieve the device name length", err)
         \/ LET n == DeviceNameSize(device)
            IN /\ calls' = Append(calls, Call("clGetDeviceInfo", "size", device, NULL, 0, "",
                                              CL_SUCCESS, n))
               /\ loc' = [loc EXCEPT !.err = CL_SUCCESS, !.device = device, !.name_len = n]
               /\ pc' = "init_name"
               /\ UNCHANGED <<out, ret, initResult>>
  /\ UNCHANGED <<m_platform, m_device, m_context>>
  /\ InitUnchanged

(* Variant of the name retrieval that goes on to create the context when   *)
(* the driver fails to return the name.                                    *)
InitName_IgnoresError ==
  /\ pc = "init_name"
  /\ \E err \in DriverErrors \cup {CL_SUCCESS} :
       /\ calls' = Append(calls, Call("clGetDeviceInfo", "fill", loc.device, NULL,
                                      loc.name_len, "", err, 0))
       /\ loc' = [loc EXCEPT !.err = err]
  /\ out' = Append(out, loginfo("found device", "", loc.device, <<>>))
  /\ pc' = "init_context"
  /\ UNCHANGED <<ret, initResult, m_platform, m_device, m_context, indexed>>
  /\ InitUnchanged

(* clGetDeviceInfo(device, CL_DEVICE_NAME, name_len, name.data(), NULL);   *)
(* loginfo("found device ...")                                             *)
InitName ==
  /\ pc = "init_name"
  /\ \/ \E err \in DriverErrors :
          InitFail(Call("clGetDeviceInfo", "fill", loc.device, NULL, loc.name_len, "", err, 0),
                   "could not retrieve the device name length", err)
     \/ /\ calls' = Append(calls, Call("clGetDeviceInfo", "fill", loc.device, NULL,
                                       loc.name_len, "", CL_SUCCESS, 0))
        /\ out' = Append(out, loginfo("found device", "", loc.device, <<>>))
        /\ loc' = [loc EXCEPT !.err = CL_SUCCESS]
        /\ pc' = "init_context"
        /\ UNCHANGED <<ret, initResult>>
  /\ UNCHANGED <<m_platform, m_device, m_context, indexed>>
  /\ InitUnchanged

(* clCreateContext(nullptr, 1, &device, nullptr, nullptr, &err); on        *)
(* success the three members are stored and init returns true.             *)
InitCreateContext ==
  /\ pc = "init_context"
  /\ \/ /\ \E err \in DriverErrors :
             InitFail(Call("clCreateContext", "", loc.device, NULL, 1, "", err, NULL),
                      "failed creating context", err)
        /\ UNCHANGED <<m_platform, m_device, m_context, indexed>>
     \/ LET context == ContextHandle(Created("clCreateContext") + 1)
        IN  /\ calls' = Append(calls, Call("clCreateContext", "", loc.device, NULL, 1, "",
                                           CL_SUCCESS, context))
            /\ loc' = [loc EXCEPT !.err = CL_SUCCESS, !.context = context]
            /\ indexed' = indexed \cup {IndexPlatforms, IndexDevices}
            /\ m_platform' = VectorAt(platforms, loc.platform_id)
            /\ m_device' = VectorAt(devices, loc.device_id)
            /\ m_context' = context
            /\ InitReturn(TRUE)
            /\ UNCHANGED out
  /\ InitUnchanged

(* ---------------------------- compiler::build -------------------------- *)
(* Variant in which every step of build clears the context member.         *)
BuildUnchanged_DropsContext ==
  /\ m_context' = NULL
  /\ UNCHANGED <<args, parseVars, retval, fidx, heap, m_platform, m_device, session,
                 initResult, nbuilds, indexed, exitCode>>

BuildUnchanged ==
  UNCHANGED <<args, parseVars, retval, fidx, heap, sessionVars, initResult, nbuilds,
              indexed, exitCode>>

(* build returns v: the scope guards of build run, then control goes back. *)
BuildReturn(call, v) ==
  /\ calls' = Append(calls, call) \o RunGuards(guards)
  /\ guards' = <<>>
  /\ ret' = v
  /\ pc' = "build_ret"

(* clCreateProgramWithSource(m_context, 1, &src, nullptr, &err).  A driver *)
(* handed a null context either rejects it or dereferences it.             *)
BuildCreateProgram ==
  /\ pc = "build_create"
  /\ \/ /\ m_context = NULL
        /\ \/ /\ calls' = Append(calls, Call("clCreateProgramWithSource", "", m_context, NULL,
                                             1, loc.src, CL_INVALID_CONTEXT, NULL))
              /\ out' = Append(out, logerr("failed creating program",
                                           cl_error_str(CL_INVALID_CONTEXT), 0, <<>>))
              /\ loc' = [loc EXCEPT !.err = CL_INVALID_CONTEXT]
              /\ ret' = FALSE
              /\ pc' = "build_ret"
              /\ UNCHANGED guards
           \/ /\ calls' = Append(calls, Call("clCreateProgramWithSource", "", m_context, NULL,
                                             1, loc.src, CL_INVALID_CONTEXT, NULL))
              /\ pc' = "crashed"
              /\ UNCHANGED <<out, loc, ret, guards>>
     \/ /\ m_context # NULL
        /\ \E err \in DriverErrors :
             /\ calls' = Append(calls, Call("clCreateProgramWithSource", "", m_context, NULL,
                                            1, loc.src, err, NULL))
             /\ out' = Append(out, logerr("failed creating program", cl_error_str(err), 0,
                                          <<>>))
             /\ loc' = [loc EXCEPT !.err = err]
             /\ ret' = FALSE
             /\ pc' = "build_ret"
             /\ UNCHANGED guards
     \/ /\ m_context # NULL
        /\ LET program == ProgramHandle(Created("clCreateProgramWithSource") + 1)
           IN  /\ calls' = Append(calls, Call("clCreateProgramWithSource", "", m_context,
                                              NULL, 1, loc.src, CL_SUCCESS, program))
               /\ loc' = [loc EXCEPT !.err = CL_SUCCESS, !.program = program]
               /\ guards' = Append(guards, ProgramGuard(program))
               /\ pc' = "build_program"
               /\ UNCHANGED <<out, ret>>
  /\ BuildUnchanged

(* The request clBuildProgram(program, 1, &m_device, "", nullptr, nullptr) *)
(* and the status it came back with.                                       *)
(* Variant that hands the first token collected after "--" to the driver.  *)
clBuildProgram_WithClargs(err) ==
  Call("clBuildProgram", "", loc.program, m_device, 1,
       IF options.clargs = <<>> THEN "" ELSE options.clargs[1], err, 0)

clBuildProgram(err) == Call("clBuildProgram", "", loc.program, m_device, 1, "", err, 0)

(* clBuildProgram(program, 1, &m_device, "", nullptr, nullptr): success is *)
(* reported and returned; a failure is reported, and only                  *)
(* CL_BUILD_PROGRAM_FAILURE goes on to the build log.                      *)
(* Variant that fetches the build log after every failed build.            *)
IsBuildProgramFailure_AnyError(err) == err # CL_SUCCESS

IsBuildProgramFailure(err) == err = CL_BUILD_PROGRAM_FAILURE

(* Variant of the success branch without its return: control falls to the  *)
(* end of build, which returns false.                                      *)
BuildProgramSuccess_FallsThrough ==
  /\ BuildReturn(clBuildProgram(CL_SUCCESS), FALSE)
  /\ out' = Append(out, loginfo("program built successfully.", "", 0, <<>>))
  /\ loc' = [loc EXCEPT !.err = CL_SUCCESS]

(* if (err == CL_SUCCESS) { loginfo(...); return true; }                   *)
BuildProgramSuccess ==
  /\ BuildReturn(clBuildProgram(CL_SUCCESS), TRUE)
  /\ out' = Append(out, loginfo("program built successfully.", "", 0, <<>>))
  /\ loc' = [loc EXCEPT !.err = CL_SUCCESS]

(* else { logerr(...) }, then the log for CL_BUILD_PROGRAM_FAILURE, in     *)
(* which case the driver holds a build log of some length, or return false.*)
BuildProgramError ==
  \E err \in BuildErrors :
    /\ out' = Append(out, logerr("failed building the program", cl_error_str(err), 0, <<>>))
    /\ IF IsBuildProgramFailure(err)
       THEN \E n \in 1..MaxLog :
              /\ calls' = Append(calls, clBuildProgram(err))
              /\ loc' = [loc EXCEPT !.err = err, !.loglen = n]
              /\ pc' = "build_log_size"
              /\ UNCHANGED <<guards, ret>>
       ELSE /\ BuildReturn(clBuildProgram(err), FALSE)
            /\ loc' = [loc EXCEPT !.err = err]

BuildProgram ==
  /\ pc = "build_program"
  /\ \/ BuildProgramSuccess
     \/ BuildProgramError
  /\ BuildUnchanged

(* size_t sz; clGetProgramBuildInfo(..., 0, NULL, &sz); the status is not  *)
(* looked at, so after a failed query sz is still uninitialised.  Then     *)
(* std::vector<char> log(++sz).                                            *)
BuildLogSize ==
  /\ pc = "build_log_size"
  /\ \/ /\ calls' = Append(calls, Call("clGetProgramBuildInfo", "size", loc.program,
                                       m_device, 0, "", CL_SUCCESS, loc.loglen + 1))
        /\ loc' = [loc EXCEPT !.sz = loc.loglen + 1 + 1,
                              !.log = ZeroBuffer(loc.loglen + 1 + 1)]
     \/ \E err \in DriverErrors, g \in 0..MaxGarbage :
          /\ calls' = Append(calls, Call("clGetProgramBuildInfo", "size", loc.program,
                                         m_device, 0, "", err, 0))
          /\ loc' = [loc EXCEPT !.sz = g + 1, !.log = ZeroBuffer(g + 1)]
  /\ pc' = "build_log_fill"
  /\ UNCHANGED <<guards, ret, out>>
  /\ BuildUnchanged

(* What the driver does with a buffer of bufsize bytes for a log of n      *)
(* characters: it needs n + 1 bytes, text and terminator.                  *)
LogFits(bufsize, n) == bufsize >= n + 1
FilledBuffer(bufsize, n) == LogText(n) \o ZeroBuffer(bufsize - n)

(* clGetProgramBuildInfo(..., log.size(), log.data(), &sz), status not     *)
(* looked at; logerr("log length=%zd\nbuild log: \n%s\n", sz, log.data()); *)
(* return false.                                                           *)
BuildLogFill ==
  /\ pc = "build_log_fill"
  /\ \/ /\ LogFits(Len(loc.log), loc.loglen)
        /\ LET log == FilledBuffer(Len(loc.log), loc.loglen)
               sz == loc.loglen + 1
           IN  /\ BuildReturn(Call("clGetProgramBuildInfo", "fill", loc.program, m_device,
                                   Len(loc.log), "", CL_SUCCESS, sz), FALSE)
               /\ loc' = [loc EXCEPT !.sz = sz, !.log = log]
               /\ out' = Append(out, logerr("log length", "", sz, CString(log)))
     \/ \E err \in (IF LogFits(Len(loc.log), loc.loglen) THEN DriverErrors
                    ELSE {CL_INVALID_VALUE}) :
          /\ BuildReturn(Call("clGetProgramBuildInfo", "fill", loc.program, m_device,
                              Len(loc.log), "", err, 0), FALSE)
          /\ out' = Append(out, logerr("log length", "", loc.sz, CString(loc.log)))
          /\ UNCHANGED loc
  /\ BuildUnchanged

(* --------------------------- compiler::~compiler ----------------------- *)
(* Variant of the destructor that forgets the context.                     *)
compiler_dtor_NoRelease ==
  /\ m_context' = NULL
  /\ session' = "destroyed"
  /\ UNCHANGED <<calls, m_platform, m_device>>

(* if (m_context) { clReleaseContext(m_context); m_context = nullptr; }    *)
compiler_dtor ==
  /\ IF m_context # NULL
     THEN /\ calls' = Append(calls, Call("clReleaseContext", "", m_context, NULL, 0, "",
                                         CL_SUCCESS, 0))
          /\ m_context' = NULL
     ELSE UNCHANGED <<calls, m_context>>
  /\ session' = "destroyed"
  /\ UNCHANGED <<m_platform, m_device>>

(* --------------------------------- main -------------------------------- *)
MainUnchanged == UNCHANGED <<args, parseVars, guards, initResult, indexed>>

(* if (exit) return retval;                                                *)
MainReturnParse ==
  /\ pc = "main_parsed"
  /\ exit
  /\ pc' = "exited"
  /\ exitCode' = retval
  /\ UNCHANGED <<retval, fidx, heap, sessionVars, loc, ret, nbuilds, calls, out>>
  /\ MainUnchanged

(* clc::compiler c; c.init(opts.platform_id, opts.device_id)               *)
MainCallInit ==
  /\ pc = "main_parsed"
  /\ ~exit
  /\ session' = "alive"
  /\ loc' = [NoLocals EXCEPT !.platform_id = options.platform_id,
                             !.device_id = options.device_id]
  /\ pc' = "init_count"
  /\ UNCHANGED <<retval, fidx, heap, m_platform, m_device, m_context, ret, nbuilds, calls,
                 out, exitCode>>
  /\ MainUnchanged

(* if (!c.init(...)) return EXIT_FAILURE;                                  *)
MainAfterInit ==
  /\ pc = "init_ret"
  /\ IF ~ret
     THEN /\ retval' = EXIT_FAILURE
          /\ pc' = "main_return"
     ELSE /\ pc' = "main_loop"
          /\ UNCHANGED retval
  /\ fidx' = 1
  /\ UNCHANGED <<heap, sessionVars, loc, ret, nbuilds, calls, out, exitCode>>
  /\ MainUnchanged

(* Variant in which a file that cannot be loaded is skipped.               *)
MainLoadFail_SkipsFile ==
  /\ pc = "main_loop"
  /\ fidx <= Len(options.filenames)
  /\ out' = Append(out, logerr("failed opening the file", options.filenames[fidx], 0, <<>>))
  /\ fidx' = fidx + 1
  /\ UNCHANGED <<pc, retval, heap, sessionVars, loc, ret, nbuilds, calls, exitCode>>
  /\ MainUnchanged

(* load_file(fn) returns nullptr: return EXIT_FAILURE.                     *)
MainLoadFail ==
  /\ pc = "main_loop"
  /\ fidx <= Len(options.filenames)
  /\ out' = Append(out, logerr("failed opening the file", options.filenames[fidx], 0, <<>>))
  /\ retval' = EXIT_FAILURE
  /\ pc' = "main_return"
  /\ UNCHANGED <<fidx, heap, sessionVars, loc, ret, nbuilds, calls, exitCode>>
  /\ MainUnchanged

(* load_file(fn) returns the buffer, a guard is set to delete it, and      *)
(* c.build(source) is called.                                              *)
MainLoadBuild ==
  /\ pc = "main_loop"
  /\ fidx <= Len(options.filenames)
  /\ heap' = heap \cup {fidx}
  /\ loc' = [NoLocals EXCEPT !.src = options.filenames[fidx]]
  /\ nbuilds' = nbuilds + 1
  /\ pc' = "build_create"
  /\ UNCHANGED <<retval, fidx, sessionVars, ret, calls, out, exitCode>>
  /\ MainUnchanged

(* Variant that gives up on the first build that returns false.            *)
MainAfterBuild_StopsOnFailure ==
  /\ pc = "build_ret"
  /\ heap' = heap \ {fidx}
  /\ IF ret
     THEN /\ fidx' = fidx + 1
          /\ pc' = "main_loop"
          /\ UNCHANGED retval
     ELSE /\ retval' = EXIT_FAILURE
          /\ pc' = "main_return"
          /\ UNCHANGED fidx
  /\ UNCHANGED <<sessionVars, loc, ret, nbuilds, calls, out, exitCode>>
  /\ MainUnchanged

(* The value of c.build(source) is dropped; the guard deletes the source   *)
(* and the loop moves to the next filename.                                *)
MainAfterBuild ==
  /\ pc = "build_ret"
  /\ heap' = heap \ {fidx}
  /\ fidx' = fidx + 1
  /\ pc' = "main_loop"
  /\ UNCHANGED <<retval, sessionVars, loc, ret, nbuilds, calls, out, exitCode>>
  /\ MainUnchanged

(* The loop is over: return EXIT_SUCCESS.                                  *)
MainLoopEnd ==
  /\ pc = "main_loop"
  /\ fidx > Len(options.filenames)
  /\ retval' = EXIT_SUCCESS
  /\ pc' = "main_return"
  /\ UNCHANGED <<fidx, heap, sessionVars, loc, ret, nbuilds, calls, out, exitCode>>
  /\ MainUnchanged

(* A return of main after c was constructed: ~compiler runs, then the      *)
(* process ends with the value returned.                                   *)
MainReturn ==
  /\ pc = "main_return"
  /\ compiler_dtor
  /\ pc' = "exited"
  /\ exitCode' = retval
  /\ UNCHANGED <<retval, fidx, heap, loc, ret, nbuilds, out>>
  /\ MainUnchanged

Next ==
  \/ ParseStart \/ ParseDeviceId \/ ParsePlatformId \/ ParseHelp \/ ParseVersion
  \/ ParseDashDash \/ ParseFilename \/ ParseLoopEnd \/ ParseClarg \/ ParseEnd
  \/ MainReturnParse \/ MainCallInit \/ MainAfterInit \/ MainLoadFail \/ MainLoadBuild
  \/ MainAfterBuild \/ MainLoopEnd \/ MainReturn
  \/ InitPlatformCount \/ InitCheckPlatform \/ InitPlatforms \/ InitDeviceCount
  \/ InitCheckDevice \/ InitDevices \/ InitNameLen \/ InitName \/ InitCreateContext
  \/ BuildCreateProgram \/ BuildProgram \/ BuildLogSize \/ BuildLogFill

Spec == Init /\ [][Next]_vars

(* ------------------------ a client of clc::compiler -------------------- *)
ClientUnchanged ==
  UNCHANGED <<args, parseVars, retval, fidx, heap, guards, initResult, indexed, exitCode>>

(* c.init(p, d), at most once per object.                                  *)
ClientInit ==
  /\ pc = "idle"
  /\ initResult = "none"
  /\ \E p \in 0..MaxIndex, d \in 0..MaxIndex :
       loc' = [NoLocals EXCEPT !.platform_id = p, !.device_id = d]
  /\ pc' = "init_count"
  /\ UNCHANGED <<sessionVars, ret, nbuilds, calls, out>>
  /\ ClientUnchanged

(* c.build(src), whether or not init was called or succeeded.              *)
ClientBuild ==
  /\ pc = "idle"
  /\ nbuilds < MaxBuilds
  /\ \E src \in Sources : loc' = [NoLocals EXCEPT !.src = src]
  /\ nbuilds' = nbuilds + 1
  /\ pc' = "build_create"
  /\ UNCHANGED <<sessionVars, ret, calls, out>>
  /\ ClientUnchanged

(* init or build returned to the client.                                   *)
ClientResume ==
  /\ pc \in {"init_ret", "build_ret"}
  /\ pc' = "idle"
  /\ UNCHANGED <<sessionVars, loc, ret, nbuilds, calls, out>>
  /\ ClientUnchanged

(* The object goes out of scope.                                           *)
ClientDestroy ==
  /\ pc = "idle"
  /\ compiler_dtor
  /\ pc' = "destroyed"
  /\ UNCHANGED <<loc, ret, nbuilds, out>>
  /\ ClientUnchanged

NextSession ==
  \/ ClientInit \/ ClientBuild \/ ClientResume \/ ClientDestroy
  \/ InitPlatformCount \/ InitCheckPlatform \/ InitPlatforms \/ InitDeviceCount
  \/ InitCheckDevice \/ InitDevices \/ InitNameLen \/ InitName \/ InitCreateContext
  \/ BuildCreateProgram \/ BuildProgram \/ BuildLogSize \/ BuildLogFill

SpecSession == InitSession /\ [][NextSession]_vars

(* --------------------------- cl_error_str alone ------------------------ *)
(* Status codes handed to cl_error_str: every cl_int from -MaxErrorCode to *)
(* 1, which covers the codes the driver defines, the unused ones between   *)
(* them and a positive value.                                              *)
ErrorCodes == (0 - MaxErrorCode)..1

InitErrorStr ==
  /\ args = <<>>
  /\ pc = "cl_error_str"
  /\ session = "none"
  /\ InitCommon

(* A caller prints cl_error_str(errorcode), as init and build do.          *)
ErrorStrCall ==
  /\ pc = "cl_error_str"
  /\ Len(out) < MaxLookups
  /\ \E errorcode \in ErrorCodes :
       out' = Append(out, logerr("status", cl_error_str(errorcode), errorcode, <<>>))
  /\ UNCHANGED <<args, pc, parseVars, retval, fidx, heap, sessionVars, loc, guards, ret,
                 initResult, nbuilds, calls, indexed, exitCode>>

NextErrorStr == ErrorStrCall

SpecErrorStr == InitErrorStr /\ [][NextErrorStr]_vars

(* ============================== properties ============================= *)
InitPcs ==
  {"init_count", "init_check_platform", "init_platforms", "init_device_count",
   "init_check_device", "init_devices", "init_name_len", "init_name", "init_context"}
BuildPcs == {"build_program", "build_log_size", "build_log_fill"}
InitFns == {"clGetPlatformIDs", "clGetDeviceIDs", "clGetDeviceInfo", "clCreateContext"}

(* init is running or has just returned: loc holds its arguments.          *)
InInit == pc \in InitPcs \cup {"init_ret"}

CallIdx == 1..Len(calls)
Made(fn) == {k \in CallIdx : calls[k].fn = fn}
MadeOk(fn) == {k \in Made(fn) : calls[k].err = CL_SUCCESS}
Handles(fn) == {calls[k].res : k \in MadeOk(fn)}
Last(seq) == seq[Len(seq)]

(* The driver told init how many platforms / devices there are.            *)
PlatformCountReported ==
  \E k \in MadeOk("clGetPlatformIDs") :
    calls[k].q = "count" /\ calls[k].res = loc.num_platforms
DeviceCountReported ==
  \E k \in MadeOk("clGetDeviceIDs") :
    calls[k].q = "count" /\ calls[k].res = loc.num_devices

SessionUninitialized == m_platform = NULL /\ m_device = NULL /\ m_context = NULL

(* C1: when the platform index is not below the platform count the driver  *)
(* reported, init stops at the range test and returns false: no platform   *)
(* list is fetched, no vector is subscripted, no device query and no       *)
(* clCreateContext is made, and the session keeps its null handles.        *)
C1_PlatformIndexOutOfRange ==
  (InInit /\ PlatformCountReported /\ loc.platform_id >= loc.num_platforms)
    => /\ pc \in {"init_check_platform", "init_ret"}
       /\ pc = "init_ret" => (ret = FALSE /\ initResult = "false")
       /\ Made("clCreateContext") = {}
       /\ Made("clGetDeviceIDs") = {}
       /\ Made("clGetDeviceInfo") = {}
       /\ Cardinality(Made("clGetPlatformIDs")) = 1
       /\ indexed = {}
       /\ SessionUninitialized

(* init(2, d) returned on a system with one platform.                      *)
C1_Witness ==
  /\ pc = "init_ret"
  /\ PlatformCountReported
  /\ loc.num_platforms = 1
  /\ loc.platform_id = 2
  /\ ret = FALSE

(* C2: with a valid platform index, when the device index is not below the *)
(* device count the driver reported for that platform, init stops at the   *)
(* range test and returns false: the device list is neither fetched nor    *)
(* subscripted, and no clCreateContext is made.                            *)
C2_DeviceIndexOutOfRange ==
  (InInit /\ PlatformCountReported /\ loc.platform_id < loc.num_platforms
     /\ DeviceCountReported /\ loc.device_id >= loc.num_devices)
    => /\ pc \in {"init_check_device", "init_ret"}
       /\ pc = "init_ret" => (ret = FALSE /\ initResult = "false")
       /\ Made("clCreateContext") = {}
       /\ Made("clGetDeviceInfo") = {}
       /\ Cardinality(Made("clGetDeviceIDs")) = 1
       /\ \A x \in indexed : x[1] # "devices"
       /\ SessionUninitialized

(* init(1, 2) returned on a system whose second platform has two devices.  *)
C2_Witness ==
  /\ pc = "init_ret"
  /\ DeviceCountReported
  /\ loc.platform_id = 1
  /\ loc.num_devices = 2
  /\ loc.device_id = 2
  /\ ret = FALSE

InitCallsAllSucceeded == \A k \in CallIdx : calls[k].fn \in InitFns => calls[k].err = CL_SUCCESS

(* C3: with both indices in range and every driver call of init            *)
(* succeeding, init returns true after exactly one clCreateContext, made   *)
(* for one device, the one at device_id in the list of the platform at     *)
(* platform_id; the session holds that platform, that device and the       *)
(* context the driver returned.                                            *)
C3_InitSuccess ==
  (pc = "init_ret" /\ PlatformCountReported /\ loc.platform_id < loc.num_platforms
     /\ DeviceCountReported /\ loc.device_id < loc.num_devices /\ InitCallsAllSucceeded)
    => /\ ret = TRUE
       /\ initResult = "true"
       /\ Cardinality(Made("clCreateContext")) = 1
       /\ \A k \in Made("clCreateContext") :
            /\ calls[k].a = DeviceList(loc.platform_id, loc.num_devices)[loc.device_id]
            /\ calls[k].n = 1
            /\ calls[k].res = m_context
       /\ m_context # NULL
       /\ m_platform = PlatformList(loc.num_platforms)[loc.platform_id]
       /\ m_device = DeviceList(loc.platform_id, loc.num_devices)[loc.device_id]

(* init(1, 1) succeeded.                                                   *)
C3_Witness ==
  /\ pc = "init_ret"
  /\ ret = TRUE
  /\ loc.platform_id = 1
  /\ loc.device_id = 1
  /\ m_context # NULL

(* C4: a driver call of init that returns an error is the last driver call *)
(* init makes; init returns false and the session keeps its three null     *)
(* handles, so that nothing is ever released.                              *)
C4_InitFailureLeavesUninitialized ==
  \A k \in CallIdx :
    (calls[k].fn \in InitFns /\ calls[k].err # CL_SUCCESS)
      => /\ \A j \in CallIdx : j > k => calls[j].fn \notin InitFns
         /\ pc \notin InitPcs
         /\ initResult = "false"
         /\ pc = "init_ret" => ret = FALSE
         /\ SessionUninitialized
         /\ Made("clReleaseContext") = {}

(* The name text could not be fetched, and the session was later destroyed.*)
C4_Witness ==
  /\ pc = "destroyed"
  /\ \E k \in Made("clGetDeviceInfo") : calls[k].q = "fill" /\ calls[k].err # CL_SUCCESS

(* C5: build never hands a null context or a null device to the driver.    *)
C5_BuildGuarded ==
  \A k \in CallIdx :
    /\ calls[k].fn = "clCreateProgramWithSource" => calls[k].a # NULL
    /\ calls[k].fn \in {"clBuildProgram", "clGetProgramBuildInfo"} => calls[k].b # NULL

(* The part of C5 about the process: main calls build only after init      *)
(* returned true.                                                          *)
MainBuildsOnlyAfterInit ==
  (nbuilds > 0 \/ Made("clCreateProgramWithSource") # {}) => initResult = "true"

(* The calls made on a program handle, in order, as <<function, query>>.   *)
ProgramCalls(program) ==
  LET OnProgram(c) == c.a = program
      cs == SelectSeq(calls, OnProgram)
  IN  [k \in 1..Len(cs) |-> <<cs[k].fn, cs[k].q>>]

(* The status clBuildProgram returned for a program.                       *)
BuildStatus(program) == {calls[k].err : k \in {j \in Made("clBuildProgram") : calls[j].a = program}}

NumMsgs(msg) == Cardinality({k \in 1..Len(out) : out[k].msg = msg})

(* The build-log queries of a kind ("size" or "fill") made so far.         *)
LogQueries(q) == {k \in Made("clGetProgramBuildInfo") : calls[k].q = q}

(* build has returned after creating a program.                            *)
BuildReturned == pc = "build_ret" /\ loc.program # NULL

(* C6: when the program is created and clBuildProgram succeeds, build      *)
(* returns true, its last message is the information that the program      *)
(* built successfully, and it makes no build-log query and prints no log.  *)
C6_BuildSuccess ==
  (BuildReturned /\ BuildStatus(loc.program) = {CL_SUCCESS})
    => /\ ret = TRUE
       /\ m_context # NULL
       /\ out # <<>>
       /\ Last(out) = loginfo("program built successfully.", "", 0, <<>>)
       /\ ProgramCalls(loc.program) = << <<"clBuildProgram", "">>, <<"clReleaseProgram", "">> >>
       /\ NumMsgs("log length") = Cardinality(LogQueries("fill"))
       /\ NumMsgs("program built successfully.") = Cardinality(MadeOk("clBuildProgram"))

C6_Witness ==
  /\ BuildReturned
  /\ BuildStatus(loc.program) = {CL_SUCCESS}
  /\ ret = TRUE

BuildFailedMsg(err) == logerr("failed building the program", cl_error_str(err), 0, <<>>)

(* C7: when clBuildProgram returns an error, build returns false and       *)
(* reports the error by its name.  For CL_BUILD_PROGRAM_FAILURE the build  *)
(* log is queried, size then text, and printed last; for any other code no *)
(* build-log query is made and the error report is the last message.       *)
C7_BuildFailure ==
  \A err \in BuildErrors :
    (BuildReturned /\ BuildStatus(loc.program) = {err})
      => /\ ret = FALSE
         /\ cl_error_str(err) # "<unknown>"
         /\ IF err = CL_BUILD_PROGRAM_FAILURE
            THEN /\ ProgramCalls(loc.program) =
                      << <<"clBuildProgram", "">>, <<"clGetProgramBuildInfo", "size">>,
                         <<"clGetProgramBuildInfo", "fill">>, <<"clReleaseProgram", "">> >>
                 /\ Len(out) >= 2
                 /\ out[Len(out) - 1] = BuildFailedMsg(err)
                 /\ Last(out).msg = "log length"
            ELSE /\ ProgramCalls(loc.program) =
                      << <<"clBuildProgram", "">>, <<"clReleaseProgram", "">> >>
                 /\ out # <<>>
                 /\ Last(out) = BuildFailedMsg(err)

(* A build failed with CL_BUILD_PROGRAM_FAILURE and printed the log.       *)
C7_Witness ==
  /\ BuildReturned
  /\ BuildStatus(loc.program) = {CL_BUILD_PROGRAM_FAILURE}
  /\ Last(out).msg = "log length"
  /\ Len(Last(out).text) > 0

(* The size and fill queries build made for a program.                     *)
SizeQuery(program) == calls[CHOOSE k \in LogQueries("size") : calls[k].a = program]
FillQuery(program) == calls[CHOOSE k \in LogQueries("fill") : calls[k].a = program]

(* C8: after a CL_BUILD_PROGRAM_FAILURE, the size the size query returned  *)
(* is the length of the printed log text plus one, the buffer given to the *)
(* fill query is at least that size, and the printed length is the length  *)
(* of the printed text plus one.                                           *)
C8_LogLengthMatchesText ==
  (BuildReturned /\ BuildStatus(loc.program) = {CL_BUILD_PROGRAM_FAILURE})
    => /\ SizeQuery(loc.program).res = Len(Last(out).text) + 1
       /\ FillQuery(loc.program).n >= SizeQuery(loc.program).res
       /\ Last(out).n = Len(Last(out).text) + 1

(* The same relation where the driver answered both build-log queries.     *)
LogLengthMatchesTextWhenQueried ==
  (BuildReturned /\ BuildStatus(loc.program) = {CL_BUILD_PROGRAM_FAILURE}
     /\ SizeQuery(loc.program).err = CL_SUCCESS /\ FillQuery(loc.program).err = CL_SUCCESS)
    => /\ SizeQuery(loc.program).res = Len(Last(out).text) + 1
       /\ FillQuery(loc.program).n >= SizeQuery(loc.program).res
       /\ Last(out).n = Len(Last(out).text) + 1

Releases(fn, h) == Cardinality({k \in Made(fn) : calls[k].a = h})

(* C9: every program build created is released exactly once, as the last   *)
(* driver call of that build, whatever clBuildProgram returned; until then *)
(* it is not released, and a build whose program creation failed makes no  *)
(* release call.                                                           *)
C9_ProgramReleasedOnce ==
  /\ \A h \in Handles("clCreateProgramWithSource") :
       Releases("clReleaseProgram", h) = IF pc \in BuildPcs /\ h = loc.program THEN 0 ELSE 1
  /\ \A k \in Made("clReleaseProgram") : calls[k].a \in Handles("clCreateProgramWithSource")
  /\ BuildReturned
       => /\ Last(calls).fn = "clReleaseProgram"
          /\ Last(calls).a = loc.program
          /\ guards = <<>>
  /\ (pc = "build_ret" /\ loc.program = NULL)
       => /\ Last(calls).fn = "clCreateProgramWithSource"
          /\ Last(calls).err # CL_SUCCESS

(* A build that fetched the build log has returned.                        *)
C9_Witness ==
  /\ BuildReturned
  /\ \E k \in LogQueries("fill") : calls[k].a = loc.program
  /\ Releases("clReleaseProgram", loc.program) = 1

(* C10: over a run of the process, clReleaseContext is called only by the  *)
(* destructor at the end of main, only on the context init created, and at *)
(* most once; when the process has ended, it was called exactly once if    *)
(* init succeeded and not at all otherwise.                                *)
C10_ContextReleasedOnce ==
  /\ \A k \in Made("clReleaseContext") :
       /\ calls[k].a \in Handles("clCreateContext")
       /\ k = Len(calls)
       /\ pc = "exited"
  /\ Cardinality(Handles("clCreateContext")) <= 1
  /\ initResult = "true" <=> Handles("clCreateContext") # {}
  /\ pc \in {"exited", "crashed"}
       => /\ \A h \in Handles("clCreateContext") : Releases("clReleaseContext", h) = 1
          /\ Cardinality(Made("clReleaseContext")) = Cardinality(Handles("clCreateContext"))
          /\ m_context = NULL

(* init succeeded, the first file could not be loaded, and the process     *)
(* ended with the context released.                                        *)
C10_Witness ==
  /\ pc = "exited"
  /\ initResult = "true"
  /\ nbuilds = 0
  /\ exitCode = EXIT_FAILURE
  /\ Cardinality(Made("clReleaseContext")) = 1

(* The codes that have a case in the switch of cl_error_str.               *)
DefinedCodes == {ErrorTable[k][1] : k \in 1..Len(ErrorTable)}
Lookups == {k \in 1..Len(out) : out[k].msg = "status"}

(* C11: cl_error_str is total and injective on the defined codes: every    *)
(* looked-up code that has a case yields a non-empty name other than       *)
(* "<unknown>", two different such codes yield different names, and every  *)
(* code without a case yields "<unknown>".                                 *)
C11_ErrorStrTotalInjective ==
  \A a \in Lookups, b \in Lookups :
    /\ out[a].n \in DefinedCodes => out[a].arg # "" /\ out[a].arg # "<unknown>"
    /\ out[a].n \notin DefinedCodes => out[a].arg = "<unknown>"
    /\ (out[a].n \in DefinedCodes /\ out[b].n \in DefinedCodes /\ out[a].n # out[b].n)
         => out[a].arg # out[b].arg

(* Looked up: a defined code, and the unused code -20 right after the last *)
(* code of the first block.                                                *)
C11_Witness ==
  /\ Len(out) = 2
  /\ out[1].n = CL_BUILD_PROGRAM_FAILURE
  /\ out[1].arg = "CL_BUILD_PROGRAM_FAILURE"
  /\ out[2].n = 0 - 20
  /\ out[2].arg = "<unknown>"

(* ------------------------- the command line ---------------------------- *)
(* The usage text of print_help and README.md read as a grammar: options   *)
(* that take a value, and what the words of a command line are when each   *)
(* such option takes the token after it as its value.                      *)
ValueOptions == {"-d", "--device-id", "-p", "--platform-id"}
OptionTokens == ValueOptions \cup {"-h", "--help", "-v", "--version", "--"}

RECURSIVE Usage(_, _)
Usage(seq, files) ==
  IF seq = <<>>
  THEN [stop |-> "end", dashdash |-> FALSE, filenames |-> files, clargs |-> <<>>]
  ELSE IF seq[1] \in ValueOptions
  THEN IF Len(seq) = 1
       THEN [stop |-> "missing", dashdash |-> FALSE, filenames |-> files, clargs |-> <<>>]
       ELSE Usage(SubSeq(seq, 3, Len(seq)), files)
  ELSE IF seq[1] \in {"-h", "--help"}
  THEN [stop |-> "help", dashdash |-> FALSE, filenames |-> files, clargs |-> <<>>]
  ELSE IF seq[1] \in {"-v", "--version"}
  THEN [stop |-> "version", dashdash |-> FALSE, filenames |-> files, clargs |-> <<>>]
  ELSE IF seq[1] = "--"
  THEN [stop |-> "end", dashdash |-> TRUE, filenames |-> files, clargs |-> Tail(seq)]
  ELSE Usage(Tail(seq), Append(files, seq[1]))

Documented == Usage(args, <<>>)

(* parse_args has returned to main (and the process did not die in it).    *)
ParsePcs == {"parse_args", "parse_loop", "parse_clargs"}
Parsed == pc \notin ParsePcs \cup {"crashed", "idle", "destroyed", "cl_error_str"}
MissingArgumentMsgs == NumMsgs("missing argument for option")

(* C12: when the command line starts with a device or platform option      *)
(* followed by the integer 1, parse_args reports no missing argument, the  *)
(* value token is consumed and is not a filename, and when parsing         *)
(* succeeds the option's index is 1 and init is called with it.            *)
C12_OptionValueParsed ==
  (/\ Parsed
   /\ Len(args) >= 2
   /\ args[1] \in {"-d", "--device-id", "--platform-id"}
   /\ args[2] = "1")
  => /\ MissingArgumentMsgs = 0
     /\ Len(options.filenames) <= Len(args) - 2
     /\ (Len(args) = 3 /\ args[3] = "a.cl")
          => /\ ~exit
             /\ options.filenames = <<"a.cl">>
             /\ IF args[1] = "--platform-id"
                THEN options.platform_id = 1 /\ options.device_id = 0
                ELSE options.device_id = 1 /\ options.platform_id = 0
             /\ InInit => /\ loc.platform_id = options.platform_id
                          /\ loc.device_id = options.device_id

(* What the code does hold to: init is called with the parsed indices.     *)
InitCalledWithParsedIndices ==
  (InInit /\ pc # "init_ret")
    => loc.platform_id = options.platform_id /\ loc.device_id = options.device_id

(* C13: -p is the short form of --platform-id, so it is never recorded as  *)
(* a filename: it is an option before "--", a value right after a value    *)
(* option, and a build option after "--".                                  *)
C13_ShortPlatformFlag ==
  \A k \in 1..Len(options.filenames) : options.filenames[k] # "-p"

(* The other half of the claim, which the code keeps: handling -d or       *)
(* --device-id changes neither the platform index nor the filenames.       *)
DeviceOptionOnlySetsDevice ==
  [][ParseDeviceId => /\ options'.platform_id = options.platform_id
                      /\ options'.filenames = options.filenames
                      /\ options'.clargs = options.clargs]_vars

(* C14: when an option that takes a value is the last token and has no     *)
(* value, parse_args reports the missing argument and the process exits    *)
(* with 1: it does not die reading argv[argc], creates no session and      *)
(* calls no driver function.                                               *)
C14_MissingValueReported ==
  Documented.stop = "missing"
  => /\ pc # "crashed"
     /\ session = "none"
     /\ calls = <<>>
     /\ Parsed => /\ exit
                  /\ retval = EXIT_FAILURE
                  /\ MissingArgumentMsgs = 1
     /\ pc = "exited" => exitCode = EXIT_FAILURE

(* C15: when the command line has no filename (it is empty, or holds only  *)
(* options with their values, or all its other words come after "--"), the *)
(* program prints the help, and only the help, and exits with 1, without   *)
(* creating a session, loading a file or calling the driver.               *)
C15_NoFilenameHelp ==
  (Documented.stop = "end" /\ Documented.filenames = <<>>)
  => /\ pc # "crashed"
     /\ session = "none"
     /\ calls = <<>>
     /\ heap = {}
     /\ Parsed => /\ exit
                  /\ retval = EXIT_FAILURE
                  /\ out = <<print_help>>
     /\ pc = "exited" => exitCode = EXIT_FAILURE

(* What the code does hold to: when parse_args itself collected no         *)
(* filename, main returns without a session, a file or a driver call, and  *)
(* never with success unless help or version was asked for.                *)
NoFilenameParsedNoSession ==
  options.filenames = <<>>
  => /\ session = "none"
     /\ calls = <<>>
     /\ heap = {}
     /\ Parsed => exit
     /\ (pc = "exited" /\ exitCode = EXIT_SUCCESS)
          => Last(out) \in {print_help, print_version}

(* C16: when the first thing on the command line that is not a filename or *)
(* an option with its value is a help or version option, the program       *)
(* prints that text, and only it, and exits with 0, without creating a     *)
(* session, loading a file or calling the driver.                          *)
C16_HelpVersionExit ==
  Documented.stop \in {"help", "version"}
  => /\ pc # "crashed"
     /\ session = "none"
     /\ calls = <<>>
     /\ heap = {}
     /\ Parsed => /\ exit
                  /\ retval = EXIT_SUCCESS
                  /\ out = <<IF Documented.stop = "help" THEN print_help
                             ELSE print_version>>
     /\ pc = "exited" => exitCode = EXIT_SUCCESS

(* What the code does hold to: once parse_args meets a help or version     *)
(* option it returns success with exit set, and main then leaves with 0    *)
(* and no session.                                                         *)
HelpVersionMetExitsZero ==
  (Parsed /\ exit /\ retval = EXIT_SUCCESS)
  => /\ Last(out) \in {print_help, print_version}
     /\ session = "none"
     /\ calls = <<>>
     /\ heap = {}
     /\ pc = "exited" => exitCode = EXIT_SUCCESS

(* The loop position of parse_args past both loops, and the states after   *)
(* a parse_args that ran to its last statement and did not return early.   *)
AtParseEnd == pc = "parse_clargs" /\ ~(i < argc)
ReachedEnd ==
  \/ AtParseEnd
  \/ Parsed /\ args # <<>>
            /\ (~exit \/ (retval = EXIT_FAILURE /\ out # <<>> /\ out[1] = print_help))
HasDashDash == \E k \in 1..Len(args) : args[k] = "--"
FirstDashDash == CHOOSE k \in 1..Len(args) : args[k] = "--" /\ \A j \in 1..(k - 1) : args[j] # "--"
NonOption(tok) == tok \notin OptionTokens

LoadFailures == NumMsgs("failed opening the file")
IsCreateProgram(call) == call.fn = "clCreateProgramWithSource"
IsBuildProgram(call) == call.fn = "clBuildProgram"
(* The sources handed to build so far, in order.                           *)
BuiltSources ==
  LET created == SelectSeq(calls, IsCreateProgram)
  IN  [k \in 1..Len(created) |-> created[k].str]

(* C18: when parsing, init and every load succeeded, the process exits     *)
(* with 0 whatever the builds returned, and every file was handed to       *)
(* build, a failed build included.                                         *)
C18_ExitIgnoresBuilds ==
  (pc = "exited" /\ ~exit /\ initResult = "true" /\ LoadFailures = 0)
  => /\ exitCode = EXIT_SUCCESS
     /\ nbuilds = Len(options.filenames)
     /\ BuiltSources = options.filenames

(* The first of two files failed to build, the second was still built, and *)
(* the process exited with 0.                                              *)
C18_Witness ==
  /\ pc = "exited"
  /\ exitCode = EXIT_SUCCESS
  /\ LoadFailures = 0
  /\ nbuilds = 2
  /\ \E k \in Made("clBuildProgram") :
       /\ calls[k].err # CL_SUCCESS
       /\ \E j \in Made("clBuildProgram") : j > k

(* The calls that start an init.                                           *)
InitStarts == {k \in Made("clGetPlatformIDs") : calls[k].q = "count"}
Loads == nbuilds + LoadFailures

(* C19: the run is sequential.  init runs once and before any load; after  *)
(* a failed init nothing is loaded or built and the exit code is 1; files  *)
(* are loaded and built once each in command-line order; and when the load *)
(* of the k-th file fails, exactly the k - 1 files before it were built,   *)
(* nothing follows, and the exit code is 1.                                *)
C19_SequentialRun ==
  /\ Cardinality(InitStarts) <= 1
  /\ Loads > 0 => /\ initResult = "true"
                  /\ Cardinality(InitStarts) = 1
  /\ \A k \in CallIdx, j \in Made("clCreateProgramWithSource") :
       calls[k].fn \in InitFns => k < j
  /\ initResult = "false"
       => /\ Loads = 0
          /\ calls # <<>> => Last(calls).fn \in InitFns
          /\ pc = "exited" => exitCode = EXIT_FAILURE
  /\ nbuilds <= Len(options.filenames)
  /\ IF pc = "build_create"
     THEN /\ BuiltSources = SubSeq(options.filenames, 1, nbuilds - 1)
          /\ loc.src = options.filenames[nbuilds]
     ELSE BuiltSources = SubSeq(options.filenames, 1, nbuilds)
  /\ (nbuilds > 0 /\ pc \notin {"build_create"} \cup BuildPcs /\ LoadFailures = 0)
       => fidx \in {nbuilds, nbuilds + 1}
  /\ LoadFailures <= 1
  /\ LoadFailures = 1
       => /\ nbuilds = fidx - 1
          /\ nbuilds < Len(options.filenames)
          /\ Last(out) = logerr("failed opening the file", options.filenames[fidx], 0, <<>>)
          /\ pc \in {"main_return", "exited"}
          /\ pc = "exited" => exitCode = EXIT_FAILURE

(* The second file could not be loaded after the first was built.          *)
C19_Witness ==
  /\ pc = "exited"
  /\ exitCode = EXIT_FAILURE
  /\ LoadFailures = 1
  /\ nbuilds = 1
  /\ Len(options.filenames) >= 2

ContextCall == CHOOSE k \in MadeOk("clCreateContext") : TRUE
ListedPlatforms == {calls[k].a : k \in MadeOk("clGetDeviceIDs")}
BuildsAfterInit == {k \in Made("clCreateProgramWithSource") : k > ContextCall}

(* C21: build leaves the session as init made it.  On a session whose init *)
(* returned true and that is not destroyed, during and after any number of *)
(* builds, whatever each returned, the three handles are those init        *)
(* stored, none is null, the context has not been released, and every      *)
(* program is created in that context.                                     *)
C21_BuildKeepsSession ==
  (initResult = "true" /\ session = "alive")
  => /\ Cardinality(MadeOk("clCreateContext")) = 1
     /\ m_context = calls[ContextCall].res
     /\ m_device = calls[ContextCall].a
     /\ ListedPlatforms = {m_platform}
     /\ m_platform # NULL /\ m_device # NULL /\ m_context # NULL
     /\ Made("clReleaseContext") = {}
     /\ \A k \in BuildsAfterInit : calls[k].a = m_context

(* Whenever a context is released, no program is created in it later.      *)
NoBuildAfterRelease ==
  \A r \in Made("clReleaseContext"), k \in Made("clCreateProgramWithSource") :
    calls[k].a = calls[r].a => k < r

(* Two builds on an initialized session have returned, one that could not  *)
(* create its program and one whose clBuildProgram failed, and the client  *)
(* holds the session again.                                                *)
C21_Witness ==
  /\ initResult = "true"
  /\ session = "alive"
  /\ pc = "idle"
  /\ Cardinality(BuildsAfterInit) = 2
  /\ \E k \in BuildsAfterInit : calls[k].err # CL_SUCCESS
  /\ \E k \in Made("clBuildProgram") : calls[k].err = CL_BUILD_PROGRAM_FAILURE
  /\ m_context # NULL
====
